---------------------------- MODULE Spec2Model ----------------------------
(***************************************************************************)
(* Distributed matrix multiplication of user/matmul.c: a Coordinator       *)
(* (the parent process) creates P pipes, forks P workers, each worker      *)
(* computes the rows get_work_range gives it and writes them as raw bytes  *)
(* on its pipe; the Coordinator reads every pipe in index order, copies    *)
(* the integers into C, waits P times and compares C with C_ref.           *)
(*                                                                         *)
(* Every system call is one atomic step.  The matrix size and the process  *)
(* count of a run are the variables n and p (the build's N and P), so the  *)
(* statements that quantify over N and P are checked over several builds.  *)
(***************************************************************************)
EXTENDS Integers, Sequences, FiniteSets, TLC

\* ------------------------------------------------------------ constants
\* #define N 10 and #define P 4: the build the repository ships.
N == 10
P == 4
\* sizeof(int) on the RISC-V target of "int bytes = sizeof(int) * out_count".
IntSize == 4

\* ------------------------------------------------------------ bounds
\* Matrix sizes 0..MaxN and process counts 1..MaxP of the process model.
MaxN == 2
MaxP == 2
\* Pipe buffer capacities 1..MaxCap, in bytes.
MaxCap == 8
\* Sizes 0..MaxRangeN and counts 1..MaxRangeP of the partition model.
MaxRangeN == 12
MaxRangeP == 5
\* At most MaxFaults system calls fail in one run.
MaxFaults == 1
\* Matrix sizes 0..MaxCmpN of the comparison model.
MaxCmpN == 2

VARIABLES
  \* the build and the kernel's pipe capacity
  n, p, cap,
  \* globals of matmul.c
  A, B, C, C_ref,
  \* the Coordinator: position, loop counter i, locals of the collection loop
  ppc, i, start, end, inbuf, offset, exitStatus,
  \* worker w (the child forked with i = w): position and locals
  wpc, wstart, wend, outbuf, written,
  \* kernel: bytes buffered in pipe w, and the processes that hold its
  \* read end / write end open
  pipeBuf, rd, wr,
  \* console: the set of lines printed
  out,
  \* history: injected faults, system calls issued, bytes read at close,
  \* how often each worker was reaped by the Coordinator
  faults, readCalls, writeCalls, got, reaped,
  \* partition model: a build (rn, rp) and the ranges each call site got
  rn, rp, childRange, parentRange,
  \* comparison model: what compare_results returned (-1 before the call)
  cmpRet

procVars == <<ppc, i, start, end, inbuf, offset, exitStatus>>
workerVars == <<wpc, wstart, wend, outbuf, written>>
kernelVars == <<pipeBuf, rd, wr>>
histVars == <<faults, readCalls, writeCalls, got, reaped>>
rangeVars == <<rn, rp, childRange, parentRange, cmpRet>>
confVars == <<n, p, cap, A, B>>
vars == <<confVars, C, C_ref, procVars, workerVars, kernelVars, out, histVars,
          rangeVars>>

\* The Coordinator's process id in rd and wr; worker w is w.
Parent == -1

\* ------------------------------------------------------------ get_work_range
\* A plausible slip: the remainder rows are not added to the later offsets.
get_work_range_NoExtraOffset(nn, pp, process_id) ==
  LET base_rows == nn \div pp
      extra_rows == nn % pp
  IN IF process_id < extra_rows
     THEN [start |-> process_id * (base_rows + 1),
           end |-> process_id * (base_rows + 1) + base_rows + 1]
     ELSE [start |-> process_id * base_rows,
           end |-> process_id * base_rows + base_rows]

\* The division the source's comment rejects: base_rows each, and the last
\* process takes the whole remainder.
get_work_range_RemainderLast(nn, pp, process_id) ==
  LET base_rows == nn \div pp
  IN [start |-> process_id * base_rows,
      end |-> IF process_id = pp - 1 THEN nn
              ELSE process_id * base_rows + base_rows]

\* get_work_range(process_id, &start, &end) of a build with N = nn, P = pp.
get_work_range(nn, pp, process_id) ==
  LET base_rows == nn \div pp
      extra_rows == nn % pp
  IN IF process_id < extra_rows
     THEN [start |-> process_id * (base_rows + 1),
           end |-> process_id * (base_rows + 1) + base_rows + 1]
     ELSE [start |-> extra_rows * (base_rows + 1)
                       + (process_id - extra_rows) * base_rows,
           end |-> extra_rows * (base_rows + 1)
                     + (process_id - extra_rows) * base_rows + base_rows]

\* ------------------------------------------------------------ matrices
Rows(nn) == 0 .. (nn - 1)

\* init_matrices(): A[i][j] = i + j + 1, B[i][j] = (i == j) ? 2 : 1.
init_A(nn) == [r \in Rows(nn) |-> [c \in Rows(nn) |-> r + c + 1]]
init_B(nn) == [r \in Rows(nn) |-> [c \in Rows(nn) |-> IF r = c THEN 2 ELSE 1]]

\* "int C[N][N]": a global, zero before main runs.
ZeroMatrix(nn) == [r \in Rows(nn) |-> [c \in Rows(nn) |-> 0]]

\* Other contents of A and B: negative and multi-byte products.
alt_A(nn) == [r \in Rows(nn) |-> [c \in Rows(nn) |-> 300 * r - c - 1]]
alt_B(nn) == [r \in Rows(nn) |-> [c \in Rows(nn) |-> IF r = c THEN -1 ELSE 70]]

Inputs(nn) == { <<init_A(nn), init_B(nn)>>, <<alt_A(nn), alt_B(nn)>> }

\* The loop "for (k = 0; k < N; k++) sum += M1[r][k] * M2[k][c]" from k on.
RECURSIVE SumFrom(_, _, _, _, _, _, _)
SumFrom(nn, M1, M2, r, c, k, sum) ==
  IF k < nn THEN SumFrom(nn, M1, M2, r, c, k + 1, sum + M1[r][k] * M2[k][c])
  ELSE sum

\* multiply_reference(): the value it leaves in C_ref.
multiply_reference(nn, M1, M2) ==
  [r \in Rows(nn) |-> [c \in Rows(nn) |-> SumFrom(nn, M1, M2, r, c, 0, 0)]]

\* compare_results(): the scan from cell (r, c) on, in row-major order;
\* 1 at the first cell where X and Y differ, 0 when the scan ends.
RECURSIVE CompareFrom(_, _, _, _, _)
CompareFrom(nn, X, Y, r, c) ==
  IF r >= nn THEN 0
  ELSE IF c >= nn THEN CompareFrom(nn, X, Y, r + 1, 0)
  ELSE IF X[r][c] # Y[r][c] THEN 1
  ELSE CompareFrom(nn, X, Y, r, c + 1)

\* A plausible slip: "return 0" inside the outer loop, after the first row.
compare_results_FirstRowOnly(nn, X, Y) ==
  IF \E c \in Rows(nn) : X[0][c] # Y[0][c] THEN 1 ELSE 0

compare_results(nn, X, Y) == CompareFrom(nn, X, Y, 0, 0)

\* A worker's outbuf: rows [s, e) of M1 x M2 in row-major order, outbuf[idx++].
\* A plausible slip: the column index runs over rows (transposed product).
ComputeRows_Transposed(nn, M1, M2, s, e) ==
  [idx \in 1 .. ((e - s) * nn) |->
     SumFrom(nn, M1, M2, (idx - 1) % nn, s + ((idx - 1) \div nn), 0, 0)]

ComputeRows(nn, M1, M2, s, e) ==
  [idx \in 1 .. ((e - s) * nn) |->
     SumFrom(nn, M1, M2, s + ((idx - 1) \div nn), (idx - 1) % nn, 0, 0)]

\* ------------------------------------------------------------ int <-> bytes
\* The bytes of a 32-bit int in memory (little-endian, two's complement):
\* what "(char*)outbuf" exposes.  \div and % round towards minus infinity.
IntToBytes(v) ==
  << v % 256, (v \div 256) % 256, (v \div 65536) % 256,
     (v \div 16777216) % 256 >>

\* The int that four bytes of "(char*)inbuf" hold.
BytesToInt(b) ==
  b[1] + 256 * b[2] + 65536 * b[3]
    + 16777216 * (IF b[4] >= 128 THEN b[4] - 256 ELSE b[4])

\* "(char*)buf": the bytes of an int array, in memory order.
BytesOf(ints) ==
  [b \in 1 .. (IntSize * Len(ints)) |->
     IntToBytes(ints[((b - 1) \div IntSize) + 1])[((b - 1) % IntSize) + 1]]

\* inbuf[idx] (idx from 0) of an int array held as bytes.
IntAt(bytes, idx) ==
  BytesToInt(SubSeq(bytes, IntSize * idx + 1, IntSize * idx + IntSize))

\* A byte of "int inbuf[in_count]" that no read has stored yet.
Uninit == -1

\* What reading an uninitialised byte of inbuf may yield: whatever the stack
\* held, here every such byte 0 or every such byte 0xFF.
GarbageBytes == {0, 255}

\* inbuf as the copy loop reads it when the stack held g.
ReadUninit(bytes, g) ==
  [b \in 1 .. Len(bytes) |-> IF bytes[b] = Uninit THEN g ELSE bytes[b]]

Min(a, b) == IF a < b THEN a ELSE b

\* ------------------------------------------------------------ initial states
Workers == 0 .. (p - 1)
NoRange == [start |-> -1, end |-> -1]

\* The processes before main's first statement, for a build (nn, pp), a
\* pipe capacity cc and contents M1, M2 of A and B.
BootProcs(nn, pp, cc, M1, M2) ==
  /\ n = nn /\ p = pp /\ cap = cc
  /\ A = M1 /\ B = M2
  /\ ppc = "start" /\ i = 0 /\ start = 0 /\ end = 0
  /\ inbuf = << >> /\ offset = 0 /\ exitStatus = -1
  /\ wpc = [w \in 0 .. (pp - 1) |-> "unborn"]
  /\ wstart = [w \in 0 .. (pp - 1) |-> 0]
  /\ wend = [w \in 0 .. (pp - 1) |-> 0]
  /\ outbuf = [w \in 0 .. (pp - 1) |-> << >>]
  /\ written = [w \in 0 .. (pp - 1) |-> 0]
  /\ pipeBuf = [w \in 0 .. (pp - 1) |-> << >>]
  /\ rd = [w \in 0 .. (pp - 1) |-> {}]
  /\ wr = [w \in 0 .. (pp - 1) |-> {}]
  /\ out = {}
  /\ faults = {}
  /\ readCalls = [w \in 0 .. (pp - 1) |-> FALSE]
  /\ writeCalls = [w \in 0 .. (pp - 1) |-> FALSE]
  /\ got = [w \in 0 .. (pp - 1) |-> -1]
  /\ reaped = [w \in 0 .. (pp - 1) |-> 0]

\* The same with the globals C and C_ref as the loader zeroes them.
Boot(nn, pp, cc, M1, M2) ==
  /\ BootProcs(nn, pp, cc, M1, M2)
  /\ C = ZeroMatrix(nn) /\ C_ref = ZeroMatrix(nn)

\* A run of main: any build within the bounds, any capacity, A and B as
\* init_matrices() fills them or with the other contents of Inputs.
Init ==
  /\ \E nn \in 0 .. MaxN : \E pp \in 1 .. MaxP : \E cc \in 1 .. MaxCap :
       \E ab \in Inputs(nn) : Boot(nn, pp, cc, ab[1], ab[2])
  /\ rn = 0 /\ rp = 1
  /\ childRange = [w \in {0} |-> NoRange]
  /\ parentRange = << >>
  /\ cmpRet = -1

\* ------------------------------------------------------------ the kernel
\* A pipe is a byte queue of cap bytes.  read takes buffered bytes, blocks
\* while the pipe is empty and some process holds its write end, and returns
\* 0 once it is empty and none does.  write stores bytes while there is
\* room, blocks while the pipe is full, and fails once no process holds the
\* read end.  fork gives the child every descriptor its parent holds; exit
\* closes every descriptor the process holds.
PipeHasData(w) == pipeBuf[w] # << >>
PipeAtEof(w) == pipeBuf[w] = << >> /\ wr[w] = {}
PipeRoom(w) == cap - Len(pipeBuf[w])
PipeNoReader(w) == rd[w] = {}
Inherit(tab, child) ==
  [w \in Workers |-> IF Parent \in tab[w] THEN tab[w] \cup {child} ELSE tab[w]]
CloseAll(tab, proc) == [w \in Workers |-> tab[w] \ {proc}]

\* ------------------------------------------------------------ the Coordinator
\* exit(status) in the Coordinator: the kernel closes every descriptor.
ParentExit(status) ==
  /\ ppc' = "exited"
  /\ exitStatus' = status
  /\ rd' = CloseAll(rd, Parent)
  /\ wr' = CloseAll(wr, Parent)

\* STEP 1: multiply_reference() (init_matrices() gave A and B).
Prepare ==
  /\ ppc = "start"
  /\ C_ref' = multiply_reference(n, A, B)
  /\ ppc' = "pipe" /\ i' = 0
  /\ UNCHANGED <<confVars, C, start, end, inbuf, offset, exitStatus,
                 workerVars, kernelVars, out, histVars, rangeVars>>

\* STEP 2: pipe(pipes[i]) succeeds.
PipeOk ==
  /\ ppc = "pipe"
  /\ rd' = [rd EXCEPT ![i] = {Parent}]
  /\ wr' = [wr EXCEPT ![i] = {Parent}]
  /\ IF i + 1 < p THEN i' = i + 1 /\ ppc' = "pipe"
     ELSE i' = 0 /\ ppc' = "fork"
  /\ UNCHANGED <<confVars, C, C_ref, start, end, inbuf, offset, exitStatus,
                 workerVars, pipeBuf, out, histVars, rangeVars>>

\* pipe(pipes[i]) < 0: "pipe failed for child i", exit(1).
PipeFail ==
  /\ Cardinality(faults) < MaxFaults
  /\ ppc = "pipe"
  /\ out' = out \cup {<<"pipe failed", i>>}
  /\ faults' = faults \cup {<<"pipe", i>>}
  /\ ParentExit(1)
  /\ UNCHANGED <<confVars, C, C_ref, i, start, end, inbuf, offset,
                 workerVars, pipeBuf, readCalls, writeCalls, got, reaped,
                 rangeVars>>

\* STEP 3: fork() returns a pid > 0 in the Coordinator; the child starts at
\* "if (pids[i] == 0)" with a copy of every descriptor the Coordinator holds.
ForkOk ==
  /\ ppc = "fork"
  /\ wpc' = [wpc EXCEPT ![i] = "start"]
  /\ rd' = Inherit(rd, i)
  /\ wr' = Inherit(wr, i)
  /\ IF i + 1 < p THEN i' = i + 1 /\ ppc' = "fork"
     ELSE i' = 0 /\ ppc' = "collect"
  /\ UNCHANGED <<confVars, C, C_ref, start, end, inbuf, offset, exitStatus,
                 wstart, wend, outbuf, written, pipeBuf, out, histVars,
                 rangeVars>>

\* A plausible slip: the failure is printed but the loop goes on.
ForkFail_NoExit ==
  /\ Cardinality(faults) < MaxFaults
  /\ ppc = "fork"
  /\ out' = out \cup {<<"fork failed", i>>}
  /\ faults' = faults \cup {<<"fork", i>>}
  /\ IF i + 1 < p THEN i' = i + 1 /\ ppc' = "fork"
     ELSE i' = 0 /\ ppc' = "collect"
  /\ UNCHANGED <<confVars, C, C_ref, start, end, inbuf, offset, exitStatus,
                 workerVars, kernelVars, readCalls, writeCalls, got, reaped,
                 rangeVars>>

\* fork() < 0: "fork failed for child i", exit(1).
ForkFail ==
  /\ Cardinality(faults) < MaxFaults
  /\ ppc = "fork"
  /\ out' = out \cup {<<"fork failed", i>>}
  /\ faults' = faults \cup {<<"fork", i>>}
  /\ ParentExit(1)
  /\ UNCHANGED <<confVars, C, C_ref, i, start, end, inbuf, offset,
                 workerVars, pipeBuf, readCalls, writeCalls, got, reaped,
                 rangeVars>>

\* "int bytes = sizeof(int) * (end - start) * N" of a range.
\* A plausible slip: the element count is taken for the byte count.
ByteCount_NoSizeof(nn, range) == (range.end - range.start) * nn

ByteCount(nn, range) == IntSize * ((range.end - range.start) * nn)

\* "while (offset < bytes)" on entry, offset = 0: the Coordinator's next
\* position.  A plausible slip: a do-while loop, which reads at least once.
ReadLoopEntry_DoWhile(bytes) == "read"

ReadLoopEntry(bytes) == IF 0 < bytes THEN "read" ELSE "copy"

\* The copy loop "C[r][c] = inbuf[idx++]" over rows [s, e).
\* A plausible slip: the rows are stored from row 0, not from row s.
CopyIntoC_FromRowZero(M, nn, s, e, buf) ==
  [r \in Rows(nn) |-> [c \in Rows(nn) |->
     IF r < e - s THEN IntAt(buf, r * nn + c) ELSE M[r][c]]]

CopyIntoC(M, nn, s, e, buf) ==
  [r \in Rows(nn) |-> [c \in Rows(nn) |->
     IF s <= r /\ r < e THEN IntAt(buf, (r - s) * nn + c) ELSE M[r][c]]]

\* A plausible slip: line 211 closes pipes[i][0], the end the loop reads.
Collect_ClosesReadEnd ==
  /\ ppc = "collect"
  /\ LET range == get_work_range(n, p, i)
         bytes == ByteCount(n, range)
     IN /\ start' = range.start
        /\ end' = range.end
        /\ inbuf' = [b \in 1 .. bytes |-> Uninit]
        /\ ppc' = ReadLoopEntry(bytes)
  /\ rd' = [rd EXCEPT ![i] = @ \ {Parent}]
  /\ offset' = 0
  /\ UNCHANGED <<confVars, C, C_ref, i, exitStatus, workerVars, pipeBuf, wr,
                 out, histVars, rangeVars>>

\* STEP 4, top of the loop body: get_work_range, the uninitialised inbuf,
\* close(pipes[i][1]), offset = 0.  A range of no bytes skips the read loop.
Collect ==
  /\ ppc = "collect"
  /\ LET range == get_work_range(n, p, i)
         bytes == ByteCount(n, range)
     IN /\ start' = range.start
        /\ end' = range.end
        /\ inbuf' = [b \in 1 .. bytes |-> Uninit]
        /\ ppc' = ReadLoopEntry(bytes)
  /\ wr' = [wr EXCEPT ![i] = @ \ {Parent}]
  /\ offset' = 0
  /\ UNCHANGED <<confVars, C, C_ref, i, exitStatus, workerVars, pipeBuf, rd,
                 out, histVars, rangeVars>>

\* The bytes the Coordinator still wants from pipe i.
Wanted == ByteCount(n, [start |-> start, end |-> end]) - offset

\* A plausible slip: read taken to return only once the whole request is
\* buffered, which a pipe smaller than the block never does.
ReadData_WholeRequest ==
  /\ ppc = "read"
  /\ Parent \in rd[i]
  /\ Wanted <= Len(pipeBuf[i])
  /\ inbuf' = [b \in 1 .. Len(inbuf) |->
                 IF offset < b THEN pipeBuf[i][b - offset] ELSE inbuf[b]]
  /\ pipeBuf' = [pipeBuf EXCEPT ![i] = SubSeq(@, Wanted + 1, Len(@))]
  /\ offset' = offset + Wanted
  /\ ppc' = "copy"
  /\ readCalls' = [readCalls EXCEPT ![i] = TRUE]
  /\ UNCHANGED <<confVars, C, C_ref, i, start, end, exitStatus, workerVars,
                 rd, wr, out, faults, writeCalls, got, reaped, rangeVars>>

\* read(pipes[i][0], inbuf + offset, bytes - offset) returns r > 0: any
\* positive number of buffered bytes up to the request.
ReadData ==
  /\ ppc = "read"
  /\ Parent \in rd[i]
  /\ PipeHasData(i)
  /\ \E r \in 1 .. Min(Len(pipeBuf[i]), Wanted) :
       /\ inbuf' = [b \in 1 .. Len(inbuf) |->
                      IF offset < b /\ b <= offset + r
                      THEN pipeBuf[i][b - offset] ELSE inbuf[b]]
       /\ pipeBuf' = [pipeBuf EXCEPT ![i] = SubSeq(@, r + 1, Len(@))]
       /\ offset' = offset + r
       /\ ppc' = IF r < Wanted THEN "read" ELSE "copy"
  /\ readCalls' = [readCalls EXCEPT ![i] = TRUE]
  /\ UNCHANGED <<confVars, C, C_ref, i, start, end, exitStatus, workerVars,
                 rd, wr, out, faults, writeCalls, got, reaped, rangeVars>>

\* read returns 0: the pipe is empty and no process holds its write end.
\* "Parent: read from child i failed", break.
ReadEof ==
  /\ ppc = "read"
  /\ Parent \in rd[i]
  /\ PipeAtEof(i)
  /\ out' = out \cup {<<"read failed", i>>}
  /\ readCalls' = [readCalls EXCEPT ![i] = TRUE]
  /\ ppc' = "copy"
  /\ UNCHANGED <<confVars, C, C_ref, i, start, end, inbuf, offset, exitStatus,
                 workerVars, kernelVars, faults, writeCalls, got, reaped,
                 rangeVars>>

\* read returns -1 (the call fails): same message, break.
ReadFail ==
  /\ Cardinality(faults) < MaxFaults
  /\ ppc = "read"
  /\ out' = out \cup {<<"read failed", i>>}
  /\ faults' = faults \cup {<<"read", i>>}
  /\ readCalls' = [readCalls EXCEPT ![i] = TRUE]
  /\ ppc' = "copy"
  /\ UNCHANGED <<confVars, C, C_ref, i, start, end, inbuf, offset, exitStatus,
                 workerVars, kernelVars, writeCalls, got, reaped, rangeVars>>

\* After the read loop: copy inbuf into rows [start, end) of C,
\* close(pipes[i][0]), next i.
Copy ==
  /\ ppc = "copy"
  /\ \E g \in GarbageBytes :
       C' = CopyIntoC(C, n, start, end, ReadUninit(inbuf, g))
  /\ rd' = [rd EXCEPT ![i] = @ \ {Parent}]
  /\ got' = [got EXCEPT ![i] = offset]
  /\ IF i + 1 < p THEN i' = i + 1 /\ ppc' = "collect"
     ELSE i' = 0 /\ ppc' = "wait"
  /\ UNCHANGED <<confVars, C_ref, start, end, inbuf, offset, exitStatus,
                 workerVars, pipeBuf, wr, out, faults, readCalls, writeCalls,
                 reaped, rangeVars>>

\* A plausible slip: the wait loop runs to P - 1, one wait short.
Wait_OneShort ==
  /\ ppc = "wait"
  /\ \E w \in Workers :
       /\ wpc[w] = "zombie"
       /\ wpc' = [wpc EXCEPT ![w] = "reaped"]
       /\ reaped' = [reaped EXCEPT ![w] = @ + 1]
  /\ IF i + 2 < p THEN i' = i + 1 /\ ppc' = "wait"
     ELSE i' = 0 /\ ppc' = "verify"
  /\ UNCHANGED <<confVars, C, C_ref, start, end, inbuf, offset, exitStatus,
                 wstart, wend, outbuf, written, kernelVars, out, faults,
                 readCalls, writeCalls, got, rangeVars>>

\* STEP 5: wait(0) returns once some child is a zombie, and reaps it.  (The
\* Coordinator has P - i unreaped children here, so wait never returns -1.)
Wait ==
  /\ ppc = "wait"
  /\ \E w \in Workers :
       /\ wpc[w] = "zombie"
       /\ wpc' = [wpc EXCEPT ![w] = "reaped"]
       /\ reaped' = [reaped EXCEPT ![w] = @ + 1]
  /\ IF i + 1 < p THEN i' = i + 1 /\ ppc' = "wait"
     ELSE i' = 0 /\ ppc' = "verify"
  /\ UNCHANGED <<confVars, C, C_ref, start, end, inbuf, offset, exitStatus,
                 wstart, wend, outbuf, written, kernelVars, out, faults,
                 readCalls, writeCalls, got, rangeVars>>

\* STEP 6: print both matrices, compare_results(), the verdict, exit(0).
Verify ==
  /\ ppc = "verify"
  /\ out' = out \cup { IF compare_results(n, C, C_ref) = 0
                      THEN <<"SUCCESS", Parent>> ELSE <<"ERROR", Parent>> }
  /\ ParentExit(0)
  /\ UNCHANGED <<confVars, C, C_ref, i, start, end, inbuf, offset,
                 workerVars, pipeBuf, histVars, rangeVars>>

\* ------------------------------------------------------------ worker w
\* The child branch up to the write loop: get_work_range(i, ...),
\* close(pipes[i][0]), the rows of A x B into outbuf, written = 0.
WorkerStart(w) ==
  /\ wpc[w] = "start"
  /\ LET range == get_work_range(n, p, w)
     IN /\ wstart' = [wstart EXCEPT ![w] = range.start]
        /\ wend' = [wend EXCEPT ![w] = range.end]
        /\ outbuf' = [outbuf EXCEPT
                        ![w] = ComputeRows(n, A, B, range.start, range.end)]
        /\ wpc' = [wpc EXCEPT
                     ![w] = IF 0 < ByteCount(n, range) THEN "write" ELSE "close"]
  /\ rd' = [rd EXCEPT ![w] = @ \ {w}]
  /\ written' = [written EXCEPT ![w] = 0]
  /\ UNCHANGED <<confVars, C, C_ref, procVars, pipeBuf, wr, out, histVars,
                 rangeVars>>

\* The bytes worker w has still to write.
Unwritten(w) == IntSize * Len(outbuf[w]) - written[w]

\* A plausible slip: the retry passes outbuf, not outbuf + written, and
\* sends the block from its first byte again.
WorkerWrite_ResendsFromStart(w) ==
  /\ wpc[w] = "write"
  /\ ~PipeNoReader(w)
  /\ 0 < PipeRoom(w)
  /\ \E k \in 1 .. Min(Unwritten(w), PipeRoom(w)) :
       /\ pipeBuf' = [pipeBuf EXCEPT
            ![w] = @ \o SubSeq(BytesOf(outbuf[w]), 1, k)]
       /\ written' = [written EXCEPT ![w] = @ + k]
       /\ wpc' = [wpc EXCEPT ![w] = IF k < Unwritten(w) THEN "write" ELSE "close"]
  /\ writeCalls' = [writeCalls EXCEPT ![w] = TRUE]
  /\ UNCHANGED <<confVars, C, C_ref, procVars, wstart, wend, outbuf, rd, wr,
                 out, faults, readCalls, got, reaped, rangeVars>>

\* write(pipes[i][1], outbuf + written, bytes - written) returns k > 0: any
\* positive number of bytes that fit the pipe, up to the request.
WorkerWrite(w) ==
  /\ wpc[w] = "write"
  /\ ~PipeNoReader(w)
  /\ 0 < PipeRoom(w)
  /\ \E k \in 1 .. Min(Unwritten(w), PipeRoom(w)) :
       /\ pipeBuf' = [pipeBuf EXCEPT
            ![w] = @ \o SubSeq(BytesOf(outbuf[w]), written[w] + 1, written[w] + k)]
       /\ written' = [written EXCEPT ![w] = @ + k]
       /\ wpc' = [wpc EXCEPT ![w] = IF k < Unwritten(w) THEN "write" ELSE "close"]
  /\ writeCalls' = [writeCalls EXCEPT ![w] = TRUE]
  /\ UNCHANGED <<confVars, C, C_ref, procVars, wstart, wend, outbuf, rd, wr,
                 out, faults, readCalls, got, reaped, rangeVars>>

\* write returns -1 because no process holds the pipe's read end:
\* "Child i: write failed", break.
WorkerWriteNoReader(w) ==
  /\ wpc[w] = "write"
  /\ PipeNoReader(w)
  /\ out' = out \cup {<<"write failed", w>>}
  /\ writeCalls' = [writeCalls EXCEPT ![w] = TRUE]
  /\ wpc' = [wpc EXCEPT ![w] = "close"]
  /\ UNCHANGED <<confVars, C, C_ref, procVars, wstart, wend, outbuf, written,
                 kernelVars, faults, readCalls, got, reaped, rangeVars>>

\* A plausible slip: "continue" for "break", the failed write is retried.
WorkerWriteFail_Retries(w) ==
  /\ Cardinality(faults) < MaxFaults
  /\ wpc[w] = "write"
  /\ out' = out \cup {<<"write failed", w>>}
  /\ faults' = faults \cup {<<"write", w>>}
  /\ writeCalls' = [writeCalls EXCEPT ![w] = TRUE]
  /\ UNCHANGED <<confVars, C, C_ref, procVars, workerVars, kernelVars,
                 readCalls, got, reaped, rangeVars>>

\* write returns <= 0 (the call fails): same message, break.
WorkerWriteFail(w) ==
  /\ Cardinality(faults) < MaxFaults
  /\ wpc[w] = "write"
  /\ out' = out \cup {<<"write failed", w>>}
  /\ faults' = faults \cup {<<"write", w>>}
  /\ writeCalls' = [writeCalls EXCEPT ![w] = TRUE]
  /\ wpc' = [wpc EXCEPT ![w] = "close"]
  /\ UNCHANGED <<confVars, C, C_ref, procVars, wstart, wend, outbuf, written,
                 kernelVars, readCalls, got, reaped, rangeVars>>

\* close(pipes[i][1]) after the write loop.
WorkerClose(w) ==
  /\ wpc[w] = "close"
  /\ wr' = [wr EXCEPT ![w] = @ \ {w}]
  /\ wpc' = [wpc EXCEPT ![w] = "exit"]
  /\ UNCHANGED <<confVars, C, C_ref, procVars, wstart, wend, outbuf, written,
                 pipeBuf, rd, out, histVars, rangeVars>>

\* exit(0) in the child: the kernel closes every descriptor it still holds
\* (the inherited ends of the other workers' pipes); the child is a zombie.
WorkerExit(w) ==
  /\ wpc[w] = "exit"
  /\ rd' = CloseAll(rd, w)
  /\ wr' = CloseAll(wr, w)
  /\ wpc' = [wpc EXCEPT ![w] = "zombie"]
  /\ UNCHANGED <<confVars, C, C_ref, procVars, wstart, wend, outbuf, written,
                 pipeBuf, out, histVars, rangeVars>>

\* ------------------------------------------------------------ specification
\* The steps in which every system call succeeds.
Success ==
  \/ Prepare \/ PipeOk \/ ForkOk \/ Collect \/ ReadData \/ Copy \/ Wait
  \/ Verify
  \/ \E w \in Workers :
       \/ WorkerStart(w) \/ WorkerWrite(w) \/ WorkerClose(w) \/ WorkerExit(w)

\* The calls that return 0 or -1 because the peer's end is closed.
Aftermath ==
  \/ ReadEof
  \/ \E w \in Workers : WorkerWriteNoReader(w)

\* The steps in which pipe or fork fails.
SetupFault == PipeFail \/ ForkFail

\* The steps in which a system call fails.
Fault ==
  \/ SetupFault
  \/ ReadFail
  \/ \E w \in Workers : WorkerWriteFail(w)

\* Every step the processes take unless a further call fails.
Progress == Success \/ Aftermath

Next == Success \/ Aftermath \/ Fault

\* Every run, with at most MaxFaults failing calls.
Spec == Init /\ [][Next]_vars

\* The runs in which every pipe, fork, read and write call succeeds.
SpecNoFault == Init /\ [][Success]_vars

\* The runs of SpecNoFault under the scheduler: xv6 schedules round-robin,
\* so a process that stays able to take a step takes one.  (A step that
\* blocks in the kernel is not enabled: blocked processes are not starved.)
CoordinatorStep ==
  Prepare \/ PipeOk \/ ForkOk \/ Collect \/ ReadData \/ Copy \/ Wait \/ Verify

WorkerStep(w) ==
  /\ w \in Workers
  /\ (WorkerStart(w) \/ WorkerWrite(w) \/ WorkerClose(w) \/ WorkerExit(w))

FairSpec ==
  /\ SpecNoFault
  /\ WF_vars(CoordinatorStep)
  /\ \A w \in 0 .. (MaxP - 1) : WF_vars(WorkerStep(w))

\* The runs in which only pipe or fork may fail; the workers a Coordinator
\* that exited leaves behind run on, their writes finding no reader.
SetupNext ==
  \/ Success
  \/ SetupFault
  \/ \E w \in Workers : WorkerWriteNoReader(w)

SpecSetupFault == Init /\ [][SetupNext]_vars

\* ------------------------------------------------------------ partition model
\* get_work_range alone, over builds up to N = MaxRangeN, P = MaxRangeP: the
\* child's call (line 165) for any worker in any order, the Coordinator's
\* calls (line 205) in index order.
RangeInit ==
  /\ \E nn \in 0 .. MaxRangeN : \E pp \in 1 .. MaxRangeP :
       /\ rn = nn /\ rp = pp
       /\ childRange = [w \in 0 .. (pp - 1) |-> NoRange]
  /\ parentRange = << >>
  /\ cmpRet = -1
  /\ Boot(0, 1, 1, << >>, << >>)

ChildRangeCall(w) ==
  /\ childRange[w] = NoRange
  /\ childRange' = [childRange EXCEPT ![w] = get_work_range(rn, rp, w)]
  /\ UNCHANGED <<confVars, C, C_ref, procVars, workerVars, kernelVars, out,
                 histVars, rn, rp, parentRange, cmpRet>>

ParentRangeCall ==
  /\ Len(parentRange) < rp
  /\ parentRange' = Append(parentRange, get_work_range(rn, rp, Len(parentRange)))
  /\ UNCHANGED <<confVars, C, C_ref, procVars, workerVars, kernelVars, out,
                 histVars, rn, rp, childRange, cmpRet>>

RangeNext ==
  \/ \E w \in 0 .. (rp - 1) : ChildRangeCall(w)
  \/ ParentRangeCall

RangeSpec == RangeInit /\ [][RangeNext]_vars

\* ------------------------------------------------------------ comparison model
\* compare_results alone, on every C and C_ref of sizes up to MaxCmpN with
\* cells from CmpCells.
CmpCells == {0, 1}
Matrices(nn) == [Rows(nn) -> [Rows(nn) -> CmpCells]]

CompareInit ==
  /\ \E nn \in 0 .. MaxCmpN :
       /\ BootProcs(nn, 1, 1, ZeroMatrix(nn), ZeroMatrix(nn))
       /\ C \in Matrices(nn)
       /\ C_ref \in Matrices(nn)
  /\ rn = 0 /\ rp = 1
  /\ childRange = [w \in {0} |-> NoRange]
  /\ parentRange = << >>
  /\ cmpRet = -1

\* The call "compare_results()": it reads C and C_ref and returns 0 or 1.
CompareCall ==
  /\ cmpRet = -1
  /\ cmpRet' = compare_results(n, C, C_ref)
  /\ UNCHANGED <<confVars, C, C_ref, procVars, workerVars, kernelVars, out,
                 histVars, rn, rp, childRange, parentRange>>

CompareSpec == CompareInit /\ [][CompareCall]_vars

\* The ranges either call site has computed for index w.
Known(w) ==
  (IF childRange[w] # NoRange THEN {childRange[w]} ELSE {})
    \cup (IF w < Len(parentRange) THEN {parentRange[w + 1]} ELSE {})

RowsOf(range) == range.start .. (range.end - 1)
SizeOf(range) == range.end - range.start
AllRangesKnown ==
  /\ \A w \in 0 .. (rp - 1) : childRange[w] # NoRange
  /\ Len(parentRange) = rp

\* C2: for every N >= 0 and P > 0 the ranges get_work_range yields for
\* indices 0..P-1 satisfy 0 <= start <= end <= N, are pairwise disjoint, and,
\* once all P are computed, cover exactly the rows [0, N).
C2_RangesPartitionRows ==
  /\ \A w \in 0 .. (rp - 1) : \A x \in Known(w) :
       0 <= x.start /\ x.start <= x.end /\ x.end <= rn
  /\ \A v, w \in 0 .. (rp - 1) : \A x \in Known(v) : \A y \in Known(w) :
       v # w => RowsOf(x) \cap RowsOf(y) = {}
  /\ (\A w \in 0 .. (rp - 1) : childRange[w] # NoRange)
       => UNION {RowsOf(childRange[w]) : w \in 0 .. (rp - 1)} = 0 .. (rn - 1)
  /\ Len(parentRange) = rp
       => UNION {RowsOf(parentRange[w + 1]) : w \in 0 .. (rp - 1)} = 0 .. (rn - 1)

\* C2 witness: an uneven build (N % P # 0, base_rows > 0) with all ranges out.
C2_Witness ==
  /\ rn = 7 /\ rp = 3
  /\ AllRangesKnown
  /\ childRange[2] = [start |-> 5, end |-> 7]

\* C3: the sizes of the ranges differ pairwise by at most 1, and a range with
\* index < N % P is at least as large as any range with index >= N % P.
C3_SizesBalanced ==
  \A v, w \in 0 .. (rp - 1) : \A x \in Known(v) : \A y \in Known(w) :
    /\ SizeOf(x) - SizeOf(y) <= 1
    /\ SizeOf(y) - SizeOf(x) <= 1
    /\ (v < rn % rp /\ w >= rn % rp) => SizeOf(x) >= SizeOf(y)

\* C3 witness: both sizes occur, the larger one at an index below N % P.
C3_Witness ==
  /\ rn % rp > 0
  /\ AllRangesKnown
  /\ SizeOf(parentRange[1]) = SizeOf(parentRange[rp]) + 1
  /\ SizeOf(childRange[0]) = rn \div rp + 1

\* C4: in the shipped build (N = 10, P = 4) workers 0..3 get the rows
\* [0,3), [3,6), [6,8), [8,10), at the child's call and at the Coordinator's.
C4_ShippedRanges ==
  (rn = N /\ rp = P) =>
    /\ Known(0) \subseteq {[start |-> 0, end |-> 3]}
    /\ Known(1) \subseteq {[start |-> 3, end |-> 6]}
    /\ Known(2) \subseteq {[start |-> 6, end |-> 8]}
    /\ Known(3) \subseteq {[start |-> 8, end |-> 10]}

\* C4 witness: the shipped build with every range computed at both sites.
C4_Witness ==
  /\ rn = N /\ rp = P
  /\ AllRangesKnown
  /\ childRange[3] = parentRange[4]

\* ------------------------------------------------------------ process claims
\* The byte count (end - start) * N * sizeof(int) of worker w's block.
Expected(w) ==
  IntSize * ((get_work_range(n, p, w).end - get_work_range(n, p, w).start) * n)

Verdicts == {<<"SUCCESS", Parent>>, <<"ERROR", Parent>>}

\* C1: when every call succeeds, C equals C_ref at every cell at the moment
\* the Coordinator runs compare_results, whatever A and B hold and however
\* the transfers are split, and the Coordinator prints SUCCESS.
C1_DistributedEqualsReference ==
  /\ ppc = "verify" =>
       \A r \in Rows(n) : \A c \in Rows(n) : C[r][c] = C_ref[r][c]
  /\ ppc = "exited" => out \cap Verdicts = {<<"SUCCESS", Parent>>}

\* C1 witness: a finished run of two workers over a one-byte pipe, with
\* negative and multi-byte cells in the result.
C1_Witness ==
  /\ ppc = "exited" /\ n = 2 /\ p = 2 /\ cap = 1
  /\ A = alt_A(2)
  /\ C = C_ref
  /\ C[0][0] = -139 /\ C[1][1] = 20632
  /\ <<"SUCCESS", Parent>> \in out

\* C5: if worker w's write loop stops short and w closes its write end and
\* exits, and no other call fails, the Coordinator is never stuck in its read
\* loop for channel w (some step remains possible without a further failure),
\* and once it has left that loop it holds fewer bytes than expected and has
\* reported the failure for w.
C5_ShortWriteIsDetected ==
  \A w \in Workers :
    (faults = {<<"write", w>>} /\ wpc[w] \in {"zombie", "reaped"}
       /\ written[w] < Expected(w)) =>
      /\ (ppc = "read" /\ i = w) => ENABLED Progress
      /\ got[w] # -1 => (got[w] < Expected(w) /\ <<"read failed", w>> \in out)

\* C6: once the Coordinator has exited, every worker it spawned has been
\* reaped by it exactly once.
C6_SpawnedWorkersReaped ==
  ppc = "exited" =>
    \A w \in Workers : wpc[w] # "unborn" => (wpc[w] = "reaped" /\ reaped[w] = 1)

\* C7: when no call fails, the Coordinator never holds more than
\* (end - start) * N * sizeof(int) bytes of channel w, and has read exactly
\* that many when it closes the read end.
C7_ExactByteCount ==
  /\ \A w \in Workers : got[w] # -1 => got[w] = Expected(w)
  /\ ppc \in {"read", "copy"} => (offset <= Expected(i) /\ Len(inbuf) = Expected(i))
  /\ ppc = "copy" => offset = Expected(i)

\* C7 witness: a block of 16 bytes collected over a pipe of 3 bytes, so in
\* at least six reads, and the read end closed.
C7_Witness ==
  /\ n = 2 /\ p = 1 /\ cap = 3
  /\ got[0] = 16
  /\ Parent \notin rd[0]
  /\ readCalls[0] /\ writeCalls[0]

\* C8: a worker whose range is empty (P > N) issues no write, the Coordinator
\* issues no read on its channel and reports no failure for it, and in a run
\* without failing calls C equals C_ref at verification.
C8_EmptyRangeTransfersNothing ==
  /\ \A w \in Workers :
       (p > n /\ Expected(w) = 0) =>
         /\ ~writeCalls[w] /\ ~readCalls[w]
         /\ written[w] = 0 /\ pipeBuf[w] = << >>
         /\ got[w] \in {-1, 0}
         /\ <<"read failed", w>> \notin out
         /\ <<"write failed", w>> \notin out
  /\ (p > n /\ faults = {} /\ ppc = "verify") => C = C_ref

\* C8 witness: P = 2 > N = 1, worker 1's empty block collected, run verified.
C8_Witness ==
  /\ n = 1 /\ p = 2
  /\ Expected(1) = 0
  /\ got[1] = 0 /\ wpc[1] = "reaped"
  /\ ppc = "exited" /\ <<"SUCCESS", Parent>> \in out

\* C9: a failed pipe or fork is reported and ends the Coordinator with status
\* 1 with no read issued, no block copied into C and no verdict printed; a
\* pipe failure leaves no worker spawned.
C9_SetupFailureAborts ==
  /\ \A w \in Workers :
       (<<"pipe", w>> \in faults \/ <<"fork", w>> \in faults) =>
         /\ ppc = "exited" /\ exitStatus = 1
         /\ <<"pipe", w>> \in faults => <<"pipe failed", w>> \in out
         /\ <<"fork", w>> \in faults => <<"fork failed", w>> \in out
         /\ \A v \in Workers : ~readCalls[v] /\ got[v] = -1
         /\ C = ZeroMatrix(n)
         /\ out \cap Verdicts = {}
  /\ \A w \in Workers :
       <<"pipe", w>> \in faults => \A v \in Workers : wpc[v] = "unborn"

\* C9 witness: the second fork fails after the first worker was spawned.
C9_Witness ==
  /\ <<"fork failed", 1>> \in out
  /\ wpc[0] = "zombie"
  /\ ppc = "exited" /\ exitStatus = 1

\* C10: a run (here with A and B as init_matrices() fills them) in which the
\* Coordinator's read loop for a worker with a non-empty range ended early
\* ends with the verdict ERROR and exit status 0.
C10_ShortReadEndsInError ==
  (/\ A = init_A(n) /\ B = init_B(n)
   /\ ppc = "exited"
   /\ \E w \in Workers : <<"read failed", w>> \in out /\ 0 < Expected(w)) =>
    (exitStatus = 0 /\ out \cap Verdicts = {<<"ERROR", Parent>>})

\* Without a failing call no read returns 0 and no write finds its readers
\* gone: the runs of SpecNoFault are the runs of Spec without a fault.
NoFaultNoAftermath == faults = {} => ~ENABLED Aftermath

\* C11: compare_results runs, and a verdict is printed, only when every
\* worker's collection is over (the Coordinator has closed both ends of the
\* worker's pipe) and every worker has been reaped, by exactly one wait each.
C11_CompareAfterAllRetired ==
  (ppc = "verify" \/ out \cap Verdicts # {}) =>
    \A w \in Workers :
      /\ got[w] # -1
      /\ Parent \notin rd[w] /\ Parent \notin wr[w]
      /\ wpc[w] = "reaped" /\ reaped[w] = 1

\* C11 witness: the Coordinator about to compare, two workers retired, one
\* of them after a read that failed.
C11_Witness ==
  /\ ppc = "verify" /\ p = 2 /\ n = 2
  /\ <<"read failed", 0>> \in out
  /\ \A w \in Workers : wpc[w] = "reaped" /\ Parent \notin rd[w]

\* C12: the Coordinator closes its write end of pipe i right after fork i,
\* so whenever it is in a read loop it holds the write end of no worker's
\* pipe.
C12_NoWriteEndWhileReading ==
  ppc = "read" => \A w \in Workers : Parent \notin wr[w]

\* C13: once worker w is spawned, only worker w and the Coordinator hold a
\* write end of pipe w and only the Coordinator (and worker w, until its
\* close at the top of the child branch) a read end; so when worker w has
\* closed its write end and pipe w is drained, a read on it by the
\* Coordinator finds end-of-stream.
C13_OneProducerOneConsumer ==
  \A w \in Workers :
    /\ wpc[w] # "unborn" =>
         (wr[w] \subseteq {w, Parent} /\ rd[w] \subseteq {w, Parent})
    /\ (ppc = "read" /\ i = w /\ wpc[w] \in {"exit", "zombie", "reaped"}
          /\ pipeBuf[w] = << >>) => PipeAtEof(w)

\* The step in which the Coordinator stores worker i's block: the only one
\* that records got[i].
CollectionStored == got' # got

\* C14: the step that stores worker i's block changes only the rows
\* get_work_range gives worker i, puts the j-th integer received at row
\* start + j / N, column j % N, and leaves A, B and C_ref alone; no other
\* step changes C, and the rows of a worker already collected are never
\* changed again, whichever worker finishes first.
C14_CollectionFrame ==
  [][ LET range == get_work_range(n, p, i)
      IN /\ CollectionStored =>
              /\ \A r \in Rows(n) :
                   (r < range.start \/ range.end <= r) => C'[r] = C[r]
              /\ \A j \in 0 .. ((offset \div IntSize) - 1) :
                   C'[range.start + (j \div n)][j % n] = IntAt(inbuf, j)
              /\ A' = A /\ B' = B /\ C_ref' = C_ref
         /\ ~CollectionStored => C' = C
         /\ \A w \in Workers :
              got[w] # -1 =>
                \A r \in RowsOf(get_work_range(n, p, w)) : C'[r] = C[r]
    ]_vars

\* C14 witness: worker 1's block (row 1 of a 2 x 2 product) is stored after
\* worker 0's, which is still in place, while worker 1 finished first.
C14_Witness ==
  /\ n = 2 /\ p = 2 /\ A = alt_A(2)
  /\ got[0] = 8 /\ got[1] = 8
  /\ C = C_ref /\ C[0][0] = -139 /\ C[1][1] = 20632
  /\ wpc[0] \in {"write", "close", "exit"} /\ wpc[1] = "zombie"

\* Rows [start_w, end_w) of A x B as the bytes of a row-major int array.
Serialized(w) ==
  BytesOf(ComputeRows(n, A, B, get_work_range(n, p, w).start,
                      get_work_range(n, p, w).end))

\* The number of bytes the Coordinator has taken out of pipe w so far.
Consumed(w) ==
  IF got[w] # -1 THEN got[w]
  ELSE IF i = w /\ ppc \in {"read", "copy"} THEN offset
  ELSE 0

\* C15: in every state and for every worker w, the bytes the Coordinator
\* has received from pipe w are the first bytes of the serialized rows
\* [start_w, end_w) of A x B and the bytes buffered in pipe w are the ones
\* that follow them, up to the last byte written; worker w never writes more
\* than (end_w - start_w) * N ints.
C15_StreamIsPrefix ==
  \A w \in Workers :
    /\ written[w] <= Expected(w)
    /\ Consumed(w) <= written[w]
    /\ pipeBuf[w] = SubSeq(Serialized(w), Consumed(w) + 1, written[w])
    /\ (i = w /\ ppc \in {"read", "copy"}) =>
         SubSeq(inbuf, 1, offset) = SubSeq(Serialized(w), 1, offset)

\* C15 witness: worker 1's 8-byte block in transit after partial writes and
\* partial reads: 5 bytes received, 2 buffered, 1 still to be written.
C15_Witness ==
  /\ n = 2 /\ p = 2 /\ A = alt_A(2)
  /\ ppc = "read" /\ i = 1 /\ offset = 5
  /\ Len(pipeBuf[1]) = 2 /\ written[1] = 7 /\ wpc[1] = "write"

\* C16: a process that is about to read, write or close an end of a pipe
\* still holds that end, and an end it has closed stays closed: worker w
\* holds the read end of pipe w only until the close that opens its branch
\* and its write end until the close after the write loop; the Coordinator
\* holds the write end of pipe i until the close that opens collection i and
\* the read end while it reads and until the close that ends collection i.
C16_NoUseAfterClose ==
  /\ \A w \in Workers :
       /\ wpc[w] = "start" => (w \in rd[w] /\ w \in wr[w])
       /\ wpc[w] \in {"write", "close"} => (w \in wr[w] /\ w \notin rd[w])
       /\ wpc[w] \in {"exit", "zombie", "reaped"} =>
            (w \notin wr[w] /\ w \notin rd[w])
  /\ ppc = "collect" => (Parent \in wr[i] /\ Parent \in rd[i])
  /\ ppc \in {"read", "copy"} => (Parent \in rd[i] /\ Parent \notin wr[i])
  /\ \A w \in Workers :
       got[w] # -1 => (Parent \notin rd[w] /\ Parent \notin wr[w])

\* C16 witness: the Coordinator reads pipe 1 with pipe 0 closed behind it,
\* worker 1 writes with its read end closed, worker 0 has closed both ends.
C16_Witness ==
  /\ p = 2 /\ ppc = "read" /\ i = 1 /\ readCalls[1]
  /\ got[0] # -1 /\ Parent \notin rd[0]
  /\ wpc[1] = "write" /\ writeCalls[1] /\ 1 \notin rd[1]
  /\ wpc[0] = "exit" /\ 0 \notin wr[0]

\* The run is over: every worker wrote its whole block, closed its pipe,
\* exited and was reaped; the Coordinator collected every block, printed a
\* verdict and exited with status 0.
Terminated ==
  /\ ppc = "exited" /\ exitStatus = 0
  /\ out \cap Verdicts # {}
  /\ \A w \in Workers :
       /\ written[w] = Expected(w) /\ w \notin wr[w]
       /\ wpc[w] = "reaped"
       /\ got[w] = Expected(w)

\* C17: under fair scheduling and with no failing call every run reaches
\* the state Terminated, for every pipe capacity from one byte up: no
\* deadlock between the Coordinator, which collects in index order, and the
\* workers, which block on full pipes.
C17_Terminates == <>Terminated

\* C17 witness: a finished run of two workers whose 8-byte blocks went
\* through pipes of one byte.
C17_Witness ==
  /\ Terminated
  /\ n = 2 /\ p = 2 /\ cap = 1
  /\ got[0] = 8 /\ got[1] = 8

\* The positions of the child branch, and the moves between them.
InBranch == {"start", "write", "close", "exit"}
BranchMoves ==
  { <<"start", "write">>, <<"start", "close">>, <<"write", "write">>,
    <<"write", "close">>, <<"close", "exit">>, <<"exit", "zombie">> }

\* Worker w takes a step.
StepOf(w) ==
  /\ wpc[w] \in InBranch
  /\ \/ wpc'[w] # wpc[w]
     \/ written'[w] # written[w]
     \/ <<"write failed", w>> \in out' \ out

\* Workers 0 .. i-1 exist while the fork loop is at i, all P once it is over.
SpawnedByIndex ==
  /\ ppc = "fork" => \A w \in Workers : (wpc[w] # "unborn") <=> (w < i)
  /\ ppc \in {"collect", "read", "copy", "wait", "verify"} =>
       \A w \in Workers : wpc[w] # "unborn"
  /\ \A w \in Workers :
       <<"write failed", w>> \in out =>
         wpc[w] \in {"close", "exit", "zombie", "reaped"}

\* C18: a worker comes into being only by the Coordinator's fork at its own
\* index, once; when the fork loop is over there are exactly P workers; a
\* step of a worker moves only along its own branch towards exit, also
\* after a failed write, and changes nothing of the Coordinator (its
\* position, loop counter, C, its reads and waits) nor any other worker's
\* position: it forks nothing, reads no pipe, waits for nobody, verifies
\* nothing.
C18_WorkersStayInBranch ==
  [][ /\ \A w \in Workers :
           /\ (wpc[w] = "unborn" /\ wpc'[w] # "unborn") =>
                (ppc = "fork" /\ i = w /\ wpc'[w] = "start")
           /\ wpc'[w] = "unborn" => wpc[w] = "unborn"
           /\ StepOf(w) =>
                /\ <<wpc[w], wpc'[w]>> \in BranchMoves
                /\ UNCHANGED <<procVars, C, C_ref, readCalls, got, reaped>>
                /\ \A v \in Workers \ {w} :
                     wpc'[v] = wpc[v] /\ written'[v] = written[v]
                /\ \A v \in Workers : Len(pipeBuf'[v]) >= Len(pipeBuf[v])
                /\ out' \cap Verdicts = out \cap Verdicts
      /\ SpawnedByIndex'
    ]_vars

\* C18 witness: both workers of a two-worker run spawned, worker 0 at the
\* end of its branch after its write failed, the Coordinator collecting.
C18_Witness ==
  /\ p = 2 /\ n = 2
  /\ <<"write failed", 0>> \in out /\ wpc[0] = "zombie"
  /\ wpc[1] \in InBranch
  /\ ppc = "read" /\ i = 0

\* C19: whatever C and C_ref hold, compare_results returns 0 if every cell
\* of C equals the cell of C_ref and 1 if some cell differs, and the call
\* leaves C and C_ref as they were.
C19_CompareIsEquality ==
  [][ /\ C' = C /\ C_ref' = C_ref
      /\ cmpRet' # -1 =>
           cmpRet' = (IF \A r \in Rows(n) : \A c \in Rows(n) :
                           C[r][c] = C_ref[r][c]
                      THEN 0 ELSE 1)
    ]_vars

\* C19 witness: 2 x 2 matrices that differ in the last cell scanned only,
\* reported as different.
C19_Witness ==
  /\ n = 2 /\ cmpRet = 1
  /\ C[0] = C_ref[0] /\ C[1][0] = C_ref[1][0] /\ C[1][1] # C_ref[1][1]

=============================================================================
